---- MODULE Spec2Model ----
(***************************************************************************)
(* A model of python/saoip/saoip.py: the target and port resolvers, the    *)
(* two probe strategies, the scan coordinator (scan_icmp / scan_tcp on a   *)
(* ThreadPoolExecutor) and main.                                           *)
(*                                                                         *)
(* Strings are sequences of one-character strings.  Addresses are         *)
(* AddrBits-bit integers and an address literal is a decimal numeral (the  *)
(* scaled-down form of a dotted quad); a block is <address>/<prefix>.      *)
(***************************************************************************)
EXTENDS Integers, Sequences, FiniteSets

\* ------------------------------------------------------------------ bounds

\* Width of an address in bits (32 for IPv4 in the program).
AddrBits == 2

\* Most comma-separated tokens in a generated port expression.
MaxTokens == 2

\* Most tasks of one scan (larger inputs are not drawn).
MaxTasks == 4

\* Most tasks of one scan in the specification of two invocations.
MaxTwiceTasks == 2

\* Most tasks of one scan in the specification with fairness.
MaxFairTasks == 4

\* Most tokens of a port expression in the resolver specification.
ParseMaxTokens == 3

\* Tasks beyond the worker-pool cap in the pool specification.
PoolExtra == 2

\* ------------------------------------------------------- program constants

\* ThreadPoolExecutor(max_workers=100)
max_workers == 100

\* ------------------------------------------------------------------ strings

Digits == {"0", "1", "2", "3", "4", "5", "6", "7", "8", "9"}

DigitVal(c) ==
    CASE c = "0" -> 0 [] c = "1" -> 1 [] c = "2" -> 2 [] c = "3" -> 3
      [] c = "4" -> 4 [] c = "5" -> 5 [] c = "6" -> 6 [] c = "7" -> 7
      [] c = "8" -> 8 [] c = "9" -> 9

\* c in s
Contains(s, c) == \E i \in 1..Len(s) : s[i] = c

\* s.split(c): the pieces between the occurrences of c, empty pieces kept.
RECURSIVE Split(_, _)
Split(s, c) ==
    IF ~Contains(s, c)
    THEN <<s>>
    ELSE LET i == CHOOSE k \in 1..Len(s) :
                      s[k] = c /\ \A j \in 1..(k - 1) : s[j] # c
         IN  <<SubSeq(s, 1, i - 1)>> \o Split(SubSeq(s, i + 1, Len(s)), c)

\* Whether int(s) returns: a non-empty run of digits (the alphabet of the
\* generated expressions has no sign, blank or underscore).
IsInt(s) == Len(s) > 0 /\ \A i \in 1..Len(s) : s[i] \in Digits

\* int(s) for a run of digits.
RECURSIVE IntOf(_)
IntOf(s) ==
    IF Len(s) = 0 THEN 0
    ELSE IntOf(SubSeq(s, 1, Len(s) - 1)) * 10 + DigitVal(s[Len(s)])

\* list(range(a, b)): a, a+1, ..., b-1; empty when a >= b.
Range(a, b) == [i \in 1..(IF b > a THEN b - a ELSE 0) |-> a + i - 1]

\* ------------------------------------------------------------- parse_ports

ValueError == [err |-> TRUE, val |-> <<>>]

Ok(v) == [err |-> FALSE, val |-> v]

\* A faulty variant of PartPorts: a token that does not parse is skipped
\* instead of raising.
PartPortsSkip(part) ==
    IF Contains(part, "-")
    THEN LET pieces == Split(part, "-")
         IN  IF Len(pieces) # 2 THEN Ok(<<>>)
             ELSE IF ~IsInt(pieces[1]) \/ ~IsInt(pieces[2]) THEN Ok(<<>>)
             ELSE Ok(Range(IntOf(pieces[1]), IntOf(pieces[2]) + 1))
    ELSE IF ~IsInt(part) THEN Ok(<<>>)
         ELSE Ok(<<IntOf(part)>>)

\* A faulty variant of PartPorts: the end of a range is left out.
PartPortsHalfOpen(part) ==
    IF Contains(part, "-")
    THEN LET pieces == Split(part, "-")
         IN  IF Len(pieces) # 2 THEN ValueError
             ELSE IF ~IsInt(pieces[1]) \/ ~IsInt(pieces[2]) THEN ValueError
             ELSE Ok(Range(IntOf(pieces[1]), IntOf(pieces[2])))
    ELSE IF ~IsInt(part) THEN ValueError
         ELSE Ok(<<IntOf(part)>>)

\* The body of the loop of parse_ports for one token: the ports it adds, or
\* the ValueError raised by the unpacking of part.split("-") or by int().
PartPorts(part) ==
    IF Contains(part, "-")
    THEN LET pieces == Split(part, "-")
         IN  IF Len(pieces) # 2 THEN ValueError
             ELSE IF ~IsInt(pieces[1]) \/ ~IsInt(pieces[2]) THEN ValueError
             ELSE Ok(Range(IntOf(pieces[1]), IntOf(pieces[2]) + 1))
    ELSE IF ~IsInt(part) THEN ValueError
         ELSE Ok(<<IntOf(part)>>)

\* The loop of parse_ports over the tokens, in order; the first ValueError
\* leaves the function.
RECURSIVE ExtendPorts(_, _)
ExtendPorts(ports, parts) ==
    IF Len(parts) = 0 THEN Ok(ports)
    ELSE LET r == PartPorts(Head(parts))
         IN  IF r.err THEN ValueError
             ELSE ExtendPorts(ports \o r.val, Tail(parts))

\* seq without the later occurrences of a value it already holds.
RECURSIVE Dedup(_)
Dedup(seq) ==
    IF Len(seq) = 0 THEN <<>>
    ELSE LET front == Dedup(SubSeq(seq, 1, Len(seq) - 1))
             last  == seq[Len(seq)]
         IN  IF \E i \in 1..Len(front) : front[i] = last
             THEN front ELSE Append(front, last)

\* A faulty variant of parse_ports: a port is kept once.
parse_ports_dedup(port_str) ==
    LET r == ExtendPorts(<<>>, Split(port_str, ","))
    IN  IF r.err THEN r ELSE Ok(Dedup(r.val))

parse_ports(port_str) == ExtendPorts(<<>>, Split(port_str, ","))

\* ---------------------------------------------------------- parse_ip_range

RECURSIVE Pow2(_)
Pow2(n) == IF n = 0 THEN 1 ELSE 2 * Pow2(n - 1)

\* ipaddress.ip_address(s): the address, or ValueError.
ip_address(s) ==
    IF IsInt(s) /\ IntOf(s) < Pow2(AddrBits) THEN Ok(IntOf(s)) ELSE ValueError

\* A faulty variant of ip_network: strict=True, an address with host bits
\* set is a ValueError.
ip_network_strict(s) ==
    LET parts == Split(s, "/")
    IN  IF Len(parts) > 2 THEN ValueError
        ELSE IF ip_address(parts[1]).err THEN ValueError
        ELSE IF Len(parts) = 2 /\ ~(IsInt(parts[2]) /\ IntOf(parts[2]) <= AddrBits)
             THEN ValueError
        ELSE LET prefix == IF Len(parts) = 2 THEN IntOf(parts[2]) ELSE AddrBits
                 size   == Pow2(AddrBits - prefix)
                 a      == ip_address(parts[1]).val
             IN  IF a % size # 0 THEN ValueError
                 ELSE Ok([addr |-> a, prefix |-> prefix])

\* ipaddress.ip_network(s, strict=False): [addr, prefix] with the host bits
\* of the address cleared, or ValueError.  A string with no "/" is the
\* network of that one address.
ip_network(s) ==
    LET parts == Split(s, "/")
    IN  IF Len(parts) > 2 THEN ValueError
        ELSE IF ip_address(parts[1]).err THEN ValueError
        ELSE IF Len(parts) = 2 /\ ~(IsInt(parts[2]) /\ IntOf(parts[2]) <= AddrBits)
             THEN ValueError
        ELSE LET prefix == IF Len(parts) = 2 THEN IntOf(parts[2]) ELSE AddrBits
                 size   == Pow2(AddrBits - prefix)
                 a      == ip_address(parts[1]).val
             IN  Ok([addr |-> a - (a % size), prefix |-> prefix])

\* A faulty variant of hosts: every address of the block is a host.
hosts_all(network) ==
    Range(network.addr, network.addr + Pow2(AddrBits - network.prefix))

\* A faulty variant of hosts: the first and the last address are left out
\* of every block, whatever its size.
hosts_exclusive(network) ==
    LET size == Pow2(AddrBits - network.prefix)
    IN  Range(network.addr + 1, network.addr + size - 1)

\* list(network.hosts()): every address of the block but the network and
\* broadcast addresses; the whole block when it holds one or two addresses.
hosts(network) ==
    LET size == Pow2(AddrBits - network.prefix)
    IN  IF size <= 2 THEN Range(network.addr, network.addr + size)
        ELSE Range(network.addr + 1, network.addr + size - 1)

\* A faulty variant of parse_ip_range: an invalid expression prints the
\* error and falls back to address 0 instead of returning the empty list.
parse_ip_range_lenient(ip_str) ==
    LET network == ip_network(ip_str)
        ip      == ip_address(ip_str)
    IN  IF ~network.err THEN [ips |-> hosts(network.val), printed |-> FALSE]
        ELSE IF ~ip.err THEN [ips |-> <<ip.val>>, printed |-> FALSE]
        ELSE [ips |-> <<0>>, printed |-> TRUE]

\* parse_ip_range(ip_str): the list returned and whether the format error
\* was printed.
parse_ip_range(ip_str) ==
    LET network == ip_network(ip_str)
        ip      == ip_address(ip_str)
    IN  IF ~network.err THEN [ips |-> hosts(network.val), printed |-> FALSE]
        ELSE IF ~ip.err THEN [ips |-> <<ip.val>>, printed |-> FALSE]
        ELSE [ips |-> <<>>, printed |-> TRUE]

\* ------------------------------------------------------------------ inputs

Slash == <<"/">>

Comma == <<",">>

AddrLits == {<<"0">>, <<"1">>, <<"9">>, <<"x">>, <<>>}

PrefixLits == {<<"0">>, <<"1">>, <<"2">>, <<"3">>, <<"x">>, <<>>}

\* Target expressions: <address>, <address>/<prefix>, and one with two "/".
Targets ==
    AddrLits
    \cup {a \o Slash \o p : a \in AddrLits, p \in PrefixLits}
    \cup {<<"1", "/", "1", "/", "1">>}

\* Tokens of a port expression: integers, ranges (one inverted), and
\* malformed tokens (a letter, empty, two hyphens, a missing bound).
Tokens ==
    { <<"1">>, <<"2">>, <<"1", "-", "2">>, <<"2", "-", "1">>,
      <<"a">>, <<>>, <<"1", "-", "2", "-", "1">>, <<"-", "1">> }

RECURSIVE TokenLists(_)
TokenLists(n) ==
    IF n = 0 THEN {<<>>}
    ELSE {<<t>> \o l : t \in Tokens, l \in TokenLists(n - 1)}

RECURSIVE Join(_)
Join(l) ==
    IF Len(l) = 1 THEN l[1] ELSE l[1] \o Comma \o Join(Tail(l))

\* Port expressions: 1..MaxTokens tokens joined by commas.
PortExprs == {Join(l) : l \in UNION {TokenLists(n) : n \in 1..MaxTokens}}

\* The number of tasks main submits for the user arguments args.
TaskCount(args) ==
    IF Len(args) \notin {1, 2} THEN 0
    ELSE LET n == Len(parse_ip_range(args[1]).ips)
         IN  IF Len(args) = 1 THEN n
             ELSE IF parse_ports(args[2]).err THEN 0
             ELSE n * Len(parse_ports(args[2]).val)

\* sys.argv[1:]: no argument, a target, a target and a port expression, or
\* one argument too many.
Argvs ==
    {<<>>}
    \cup {<<t>> : t \in Targets}
    \cup {<<t, p>> : t \in Targets, p \in PortExprs}
    \cup {<<t, p, <<"x">> >> : t \in Targets, p \in PortExprs}

\* ------------------------------------------------------------------- state

VARIABLES
    argv,        \* sys.argv[1:], a sequence of strings
    pc,          \* main's position: "start", "dispatch", "scan", "done"
    mode,        \* the scan running: "none", "icmp" (scan_icmp), "tcp" (scan_tcp)
    ips,         \* the list parse_ip_range returned
    ports,       \* the list parse_ports returned
    portsParsed, \* whether parse_ports has been called
    out,         \* the lines printed so far, in order
    tasks,       \* the tasks submitted to the executor, in submission order
    st,          \* per task: "queued", "probing", "waitlock", "printing",
                 \* "finished" (the worker returned), "raised" (it raised)
    res,         \* per task: <<the pair its probe returned>>, <<>> before
    probes,      \* per task: how many times its probe has been invoked
    probeRaised, \* whether an exception has been raised inside some probe
    lock,        \* print_lock: 0 when free, else the task holding it
    drained,     \* the futures the as_completed loop has taken
    pool,        \* the counters of the pool specification
    prev,        \* what an earlier invocation of main left on record
    unclosed     \* whether a tcp_connect has returned with its socket open

vars ==
    <<argv, pc, mode, ips, ports, portsParsed, out, tasks, st, res, probes,
      probeRaised, lock, drained, pool, prev, unclosed>>

\* ------------------------------------------------------------------ output

\* A line of text printed by main or by parse_ip_range.
Message(kind, arg) ==
    [kind |-> kind, src |-> 0, ip |-> <<>>, port |-> <<>>, rt |-> <<>>, arg |-> arg]

\* The line a worker prints for task number t: its address, its port (in
\* connect mode) and the response time.
ResultLine(t, task, response_time) ==
    [kind |-> task.kind, src |-> t, ip |-> <<task.ip>>, port |-> task.port,
     rt |-> response_time, arg |-> <<>>]

\* ------------------------------------------------------------------ probes

\* None
None == <<>>

\* Elapsed times a probe may measure, in milliseconds.
Latencies == {1}

\* What the network does to one probe: the ping exits 0 / the connection is
\* established after lat ms ("up"), the ping exits non-zero / connect_ex
\* returns an error code ("down"), or the call raises ("raise").
Outcomes ==
    {[ev |-> "up", lat |-> l] : l \in Latencies}
    \cup {[ev |-> "down", lat |-> 0], [ev |-> "raise", lat |-> 0]}

\* What the network can do to the probe of one task: connect_ex raises
\* OverflowError for a port that is not in 0..65535, before any packet.
OutcomesOf(task) ==
    IF task.kind = "tcp" /\ task.port[1] \notin 0..65535
    THEN {o \in Outcomes : o.ev = "raise"}
    ELSE Outcomes

\* What a call returns to its caller: a value, or an exception.
Returns(alive, rt) == [raised |-> FALSE, alive |-> alive, rt |-> rt]

Raises == [raised |-> TRUE, alive |-> FALSE, rt |-> None]

\* A faulty variant of ping_ip: no except clause, the exception leaves it.
ping_ip_uncaught(o) ==
    IF o.ev = "up" THEN Returns(TRUE, <<o.lat>>)
    ELSE IF o.ev = "down" THEN Returns(FALSE, None)
    ELSE Raises

\* ping_ip(ip): (True, response_time) when the ping exits 0, (False, None)
\* when it exits non-zero, and (False, None) from the except clause when
\* anything raises.
ping_ip(o) ==
    IF o.ev = "up" THEN Returns(TRUE, <<o.lat>>)
    ELSE IF o.ev = "down" THEN Returns(FALSE, None)
    ELSE Returns(FALSE, None)

\* tcp_connect(ip, port): (True, response_time) when connect_ex returns 0,
\* (False, None) when it returns an error code, and (False, None) from the
\* except clause when anything raises.
tcp_connect(o) ==
    IF o.ev = "up" THEN Returns(TRUE, <<o.lat>>)
    ELSE IF o.ev = "down" THEN Returns(FALSE, None)
    ELSE Returns(FALSE, None)

\* tcp_connect, line 117: sock.close() is the statement after connect_ex,
\* inside the try block; it is run when connect_ex returned and skipped
\* when connect_ex raised, and the except clause does not close.
sock_close(o) == o.ev # "raise"

\* ------------------------------------------------------------- coordinator

\* The tasks scan_icmp submits, in order: one per address.
IcmpTasks(addrs) ==
    [k \in 1..Len(addrs) |-> [kind |-> "icmp", ip |-> addrs[k], port |-> <<>>]]

\* A faulty variant of TcpTasks: addresses and ports are paired position by
\* position instead of combined.
TcpTasksZip(addrs, prts) ==
    [k \in 1..(IF Len(addrs) < Len(prts) THEN Len(addrs) ELSE Len(prts)) |->
        [kind |-> "tcp", ip |-> addrs[k], port |-> <<prts[k]>>]]

\* The tasks scan_tcp submits, in order: for ip in ips, for port in ports.
TcpTasks(addrs, prts) ==
    [k \in 1..(Len(addrs) * Len(prts)) |->
        [kind |-> "tcp",
         ip   |-> addrs[((k - 1) \div Len(prts)) + 1],
         port |-> <<prts[((k - 1) % Len(prts)) + 1]>>]]

\* The tasks the running scan submits.
Plan == IF mode = "icmp" THEN IcmpTasks(ips) ELSE TcpTasks(ips, ports)

\* The tasks a worker thread is running.
Busy == {t \in 1..Len(tasks) : st[t] \in {"probing", "waitlock", "printing"}}

\* A faulty variant of WorkerAvailable: a thread per task, no cap.
WorkerUncapped(busy) == TRUE

\* ThreadPoolExecutor(max_workers=100): a queued task is taken by a worker
\* thread only while fewer than max_workers tasks are being run.
WorkerAvailable(busy) == busy < max_workers

\* A faulty variant of LockFree: the section is entered without the lock.
LockIgnored(l) == TRUE

\* with print_lock: the lock is taken only when no one holds it.
LockFree(l) == l = 0

\* The probe of the running scan.
Probe(task, o) == IF task.kind = "icmp" THEN ping_ip(o) ELSE tcp_connect(o)

\* A faulty variant of ShouldPrint: every result is printed.
PrintAlways(r) == TRUE

\* if is_alive: / if is_open: the worker prints only a reachable result.
ShouldPrint(r) == r.alive

\* A faulty variant of WorkerNext: the worker returns without printing,
\* whatever its probe found.
WorkerSilent(r) == "finished"

\* A faulty variant of WorkerNext: an unreachable task is queued again.
WorkerRetry(r) == IF r.alive THEN "waitlock" ELSE "queued"

\* The worker function after its probe returned r: it goes on to the
\* print section, or returns.
WorkerNext(r) == IF ShouldPrint(r) THEN "waitlock" ELSE "finished"

\* A future as_completed yields: its worker function returned or raised.
FutureDone(s) == s \in {"finished", "raised"}

\* The count of failed tasks scan_icmp / scan_tcp hold when the loop has
\* ended: the loop body calls future.result() and drops what it returns,
\* "except Exception: pass" drops what it raises, and no name of the scan
\* is a counter. The count is absent.
FailedCount == None

\* A faulty variant of AsCompletedExhausted: the loop stops at the first
\* future it takes.
EarlyExit(d, n) == d # {} \/ n = 0

\* The as_completed loop ends when it has taken all n futures.
AsCompletedExhausted(d, n) == d = 1..n

\* -------------------------------------------------------------------- pool

\* The pool specification counts the tasks of one scan instead of naming
\* them: n tasks to submit, sub submitted, busy being run by a worker, fin
\* finished, taken drained by the as_completed loop.
PoolInit(n) ==
    [n |-> n, sub |-> 0, busy |-> 0, fin |-> 0, taken |-> 0, returned |-> FALSE]

PoolIdle == PoolInit(0)

\* -------------------------------------------------------------------- Init

\* The record of an earlier invocation: none was made.
NoRun ==
    [run |-> 0, mode |-> "none", ips |-> <<>>, ports |-> <<>>, tasks |-> <<>>,
     res |-> <<>>, out |-> <<>>]


\* The state main starts in, given its arguments.
InitWith(args) ==
    /\ argv = args
    /\ pc = "start"
    /\ mode = "none"
    /\ ips = <<>>
    /\ ports = <<>>
    /\ portsParsed = FALSE
    /\ out = <<>>
    /\ tasks = <<>>
    /\ st = <<>>
    /\ res = <<>>
    /\ probes = <<>>
    /\ probeRaised = FALSE
    /\ lock = 0
    /\ drained = {}
    /\ pool = PoolIdle
    /\ prev = NoRun
    /\ unclosed = FALSE

Init == \E a \in Argvs : TaskCount(a) <= MaxTasks /\ InitWith(a)

scanVars == <<tasks, st, res, probes, probeRaised, lock, drained>>

\* -------------------------------------------------------------------- main

\* main, lines 236-247: no user argument prints the usage and returns.
MainUsage ==
    /\ pc = "start"
    /\ Len(argv) < 1
    /\ out' = Append(out, Message("usage", <<>>))
    /\ pc' = "done"
    /\ UNCHANGED <<argv, mode, ips, ports, portsParsed, scanVars, pool, prev, unclosed>>

\* main, lines 250-255: resolve the target; an empty list ends main.
MainParseIp ==
    /\ pc = "start"
    /\ Len(argv) >= 1
    /\ LET r == parse_ip_range(argv[1])
       IN  /\ ips' = r.ips
           /\ out' = out
                \o (IF r.printed
                    THEN <<Message("error_ip_format", argv[1])>> ELSE <<>>)
                \o (IF r.ips = <<>>
                    THEN <<Message("error_ip_unresolved", argv[1])>> ELSE <<>>)
           /\ pc' = IF r.ips = <<>> THEN "done" ELSE "dispatch"
    /\ UNCHANGED <<argv, mode, ports, portsParsed, scanVars, pool, prev, unclosed>>

\* main, lines 258-260 and scan_icmp, lines 187-188: one user argument
\* starts the reachability scan.
MainIcmp ==
    /\ pc = "dispatch"
    /\ Len(argv) = 1
    /\ mode' = "icmp"
    /\ out' = out \o <<Message("header_icmp", <<>>), Message("rule", <<>>)>>
    /\ pc' = "scan"
    /\ UNCHANGED <<argv, ips, ports, portsParsed, scanVars, pool, prev, unclosed>>

\* main, lines 261-272 and scan_tcp, lines 211-212: two user arguments
\* resolve the ports and start the connect scan, or print a port error.
MainTcp ==
    /\ pc = "dispatch"
    /\ Len(argv) = 2
    /\ portsParsed' = TRUE
    /\ LET r == parse_ports(argv[2])
       IN  IF r.err
           THEN /\ out' = Append(out, Message("error_port_format", argv[2]))
                /\ pc' = "done"
                /\ UNCHANGED <<mode, ports>>
           ELSE IF r.val = <<>>
           THEN /\ out' = Append(out, Message("error_port_unresolved", argv[2]))
                /\ pc' = "done"
                /\ UNCHANGED <<mode, ports>>
           ELSE /\ ports' = r.val
                /\ mode' = "tcp"
                /\ out' = out \o <<Message("header_tcp", <<>>), Message("rule", <<>>)>>
                /\ pc' = "scan"
    /\ UNCHANGED <<argv, ips, scanVars, pool, prev, unclosed>>

\* A faulty variant of MainArgCount: the argument count is checked before
\* the target is parsed.
MainArgCountFirst ==
    /\ pc = "start"
    /\ Len(argv) > 2
    /\ out' = out \o <<Message("error_argc", <<>>), Message("usage_short", <<>>)>>
    /\ pc' = "done"
    /\ UNCHANGED <<argv, mode, ips, ports, portsParsed, scanVars, pool, prev,
                   unclosed>>

\* main, lines 273-277: any other argument count prints an error.
MainArgCount ==
    /\ pc = "dispatch"
    /\ Len(argv) > 2
    /\ out' = out \o <<Message("error_argc", <<>>), Message("usage_short", <<>>)>>
    /\ pc' = "done"
    /\ UNCHANGED <<argv, mode, ips, ports, portsParsed, scanVars, pool, prev, unclosed>>

\* ---------------------------------------------------- scan_icmp / scan_tcp

\* executor.submit(scan_icmp_worker, ip) / executor.submit(scan_tcp_worker,
\* ip, port): the next task of the comprehension is queued.
Submit ==
    /\ pc = "scan"
    /\ Len(tasks) < Len(Plan)
    /\ tasks' = Append(tasks, Plan[Len(tasks) + 1])
    /\ st' = Append(st, "queued")
    /\ res' = Append(res, <<>>)
    /\ probes' = Append(probes, 0)
    /\ UNCHANGED <<argv, pc, mode, ips, ports, portsParsed, out, probeRaised,
                   lock, drained, pool, prev, unclosed>>

\* A worker thread takes the oldest queued task and calls its probe.
Start(t) ==
    /\ st[t] = "queued"
    /\ \A u \in 1..(t - 1) : st[u] # "queued"
    /\ WorkerAvailable(Cardinality(Busy))
    /\ st' = [st EXCEPT ![t] = "probing"]
    /\ probes' = [probes EXCEPT ![t] = @ + 1]
    /\ UNCHANGED <<argv, pc, mode, ips, ports, portsParsed, out, tasks, res,
                   probeRaised, lock, drained, pool, prev, unclosed>>

\* scan_icmp_worker line 160 / scan_tcp_worker line 174: the probe returns
\* and the worker goes on to print or returns at once; a probe that raised
\* would end the worker function with that exception.
ProbeReturn(t) ==
    /\ st[t] = "probing"
    /\ \E o \in OutcomesOf(tasks[t]) :
          LET c == Probe(tasks[t], o)
          IN  /\ probeRaised' = (probeRaised \/ o.ev = "raise")
              /\ unclosed' = (unclosed \/ (tasks[t].kind = "tcp" /\ ~sock_close(o)))
              /\ IF c.raised
                 THEN /\ st' = [st EXCEPT ![t] = "raised"]
                      /\ UNCHANGED res
                 ELSE /\ res' = [res EXCEPT ![t] = <<[alive |-> c.alive, rt |-> c.rt]>>]
                      /\ st' = [st EXCEPT ![t] = WorkerNext(c)]
    /\ UNCHANGED <<argv, pc, mode, ips, ports, portsParsed, out, tasks, probes,
                   lock, drained, pool, prev>>

\* with print_lock: the worker enters the section.
Acquire(t) ==
    /\ st[t] = "waitlock"
    /\ LockFree(lock)
    /\ lock' = t
    /\ st' = [st EXCEPT ![t] = "printing"]
    /\ UNCHANGED <<argv, pc, mode, ips, ports, portsParsed, out, tasks, res,
                   probes, probeRaised, drained, pool, prev, unclosed>>

\* print(...) inside the section, then the lock is released and the worker
\* function returns.
Emit(t) ==
    /\ st[t] = "printing"
    /\ out' = Append(out, ResultLine(t, tasks[t], res[t][1].rt))
    /\ lock' = IF lock = t THEN 0 ELSE lock
    /\ st' = [st EXCEPT ![t] = "finished"]
    /\ UNCHANGED <<argv, pc, mode, ips, ports, portsParsed, tasks, res, probes,
                   probeRaised, drained, pool, prev, unclosed>>

\* for future in as_completed(...): once every task is submitted, the loop
\* takes a done future it has not taken yet; future.result() returns, or
\* raises the worker's exception into "except Exception: pass".
Drain(t) ==
    /\ pc = "scan"
    /\ Len(tasks) = Len(Plan)
    /\ FutureDone(st[t])
    /\ t \notin drained
    /\ drained' = drained \cup {t}
    /\ UNCHANGED <<argv, pc, mode, ips, ports, portsParsed, out, tasks, st, res,
                   probes, probeRaised, lock, pool, prev, unclosed>>

\* The loop has taken every future: the with block shuts the executor down
\* and the scan, then main, returns.
ScanReturn ==
    /\ pc = "scan"
    /\ Len(tasks) = Len(Plan)
    /\ AsCompletedExhausted(drained, Len(tasks))
    /\ pc' = "done"
    /\ UNCHANGED <<argv, mode, ips, ports, portsParsed, out, scanVars, pool, prev, unclosed>>

Next ==
    \/ MainUsage
    \/ MainParseIp
    \/ MainIcmp
    \/ MainTcp
    \/ MainArgCount
    \/ Submit
    \/ \E t \in 1..Len(tasks) : Start(t)
    \/ \E t \in 1..Len(tasks) : ProbeReturn(t)
    \/ \E t \in 1..Len(tasks) : Acquire(t)
    \/ \E t \in 1..Len(tasks) : Emit(t)
    \/ \E t \in 1..Len(tasks) : Drain(t)
    \/ ScanReturn

Spec == Init /\ [][Next]_vars

\* The arguments drawn under fairness: a few of each shape.
FairTargets == {<<"1">>, <<"0", "/", "1">>, <<"x">>}

FairPortExprs ==
    { <<"1">>, <<"1", ",", "2">>, <<"1", "-", "2">>, <<"2", "-", "1">>,
      <<"1", ",", "2", "-", "1">>, <<"1", "-", "2", ",", "1">>,
      <<"1", "-", "2", ",", "1", "-", "2">>, <<"a">> }

FairArgvs ==
    {<<>>}
    \cup {<<t>> : t \in FairTargets}
    \cup {<<t, p>> : t \in FairTargets, p \in FairPortExprs}
    \cup {<<t, p, <<"x">> >> : t \in FairTargets, p \in FairPortExprs}

InitFair == \E a \in FairArgvs : TaskCount(a) <= MaxFairTasks /\ InitWith(a)

\* Every step that is enabled is eventually taken: main runs on, the
\* executor's threads are scheduled, and every probe call returns.
FairSpec == InitFair /\ [][Next]_vars /\ WF_vars(Next)

\* ------------------------------------------------------- two invocations

\* A faulty variant of Fresh: the value of the earlier invocation is kept.
Stale(old, initial) == old

\* What a name of main, of a scan or of a worker holds when main is entered
\* again: every one of them is a local, bound anew by the invocation.
Fresh(old, initial) == initial

\* main is invoked a second time with the same arguments. What the first
\* invocation did is put on record; print_lock, the one object of module
\* level, is the same lock.
Rerun ==
    /\ pc = "done"
    /\ prev.run = 0
    /\ prev' = [run |-> 1, mode |-> mode, ips |-> ips, ports |-> ports,
                tasks |-> tasks, res |-> res, out |-> out]
    /\ pc' = "start"
    /\ mode' = Fresh(mode, "none")
    /\ ips' = Fresh(ips, <<>>)
    /\ ports' = Fresh(ports, <<>>)
    /\ portsParsed' = Fresh(portsParsed, FALSE)
    /\ out' = Fresh(out, <<>>)
    /\ tasks' = Fresh(tasks, <<>>)
    /\ st' = Fresh(st, <<>>)
    /\ res' = Fresh(res, <<>>)
    /\ probes' = Fresh(probes, <<>>)
    /\ probeRaised' = Fresh(probeRaised, FALSE)
    /\ drained' = Fresh(drained, {})
    /\ unclosed' = Fresh(unclosed, FALSE)
    /\ UNCHANGED <<argv, lock, pool>>

InitTwice == \E a \in FairArgvs : TaskCount(a) <= MaxTwiceTasks /\ InitWith(a)

NextTwice ==
    \/ Next
    \/ Rerun

TwiceSpec == InitTwice /\ [][NextTwice]_vars

\* The blocking call of a probe carries a timeout of its own: tcp_connect
\* sets one on its socket (sock.settimeout), ping_ip calls subprocess.run
\* without timeout= and waits for the ping process however long it runs.
CallBounded(task) == task.kind = "tcp"

\* The steps that are taken whatever the environment does: those of main,
\* of the executor's threads, and the return of a call with a timeout.
GuardedStep ==
    \/ MainUsage
    \/ MainParseIp
    \/ MainIcmp
    \/ MainTcp
    \/ MainArgCount
    \/ Submit
    \/ \E t \in 1..Len(tasks) : Start(t)
    \/ \E t \in 1..Len(tasks) : CallBounded(tasks[t]) /\ ProbeReturn(t)
    \/ \E t \in 1..Len(tasks) : Acquire(t)
    \/ \E t \in 1..Len(tasks) : Emit(t)
    \/ \E t \in 1..Len(tasks) : Drain(t)
    \/ ScanReturn

\* Nothing is assumed of the environment: only the guarded steps are fair.
HangSpec == InitFair /\ [][Next]_vars /\ WF_vars(GuardedStep)

\* The arguments drawn to look at port numbers and argument counts: those
\* of FairArgvs, port expressions with values above 65535, and four
\* arguments.
EdgePortExprs ==
    { <<"7", "0", "0", "0", "0">>,
      <<"1", ",", "7", "0", "0", "0", "0">>,
      <<"6", "5", "5", "3", "5", "-", "6", "5", "5", "3", "6">> }

EdgeArgvs ==
    FairArgvs
    \cup {<<t, p>> : t \in FairTargets, p \in EdgePortExprs}
    \cup {<<t, <<"1">>, <<"x">>, <<"x">> >> : t \in FairTargets}

InitEdge == \E a \in EdgeArgvs : TaskCount(a) <= MaxFairTasks /\ InitWith(a)

EdgeSpec == InitEdge /\ [][Next]_vars

\* ------------------------------------------------------ pool specification

\* One scan of more tasks than the executor has workers.
PoolSizes == (max_workers + 1)..(max_workers + PoolExtra)

InitPool ==
    /\ argv = <<>>
    /\ pc = "pool"
    /\ mode = "none"
    /\ ips = <<>>
    /\ ports = <<>>
    /\ portsParsed = FALSE
    /\ out = <<>>
    /\ tasks = <<>>
    /\ st = <<>>
    /\ res = <<>>
    /\ probes = <<>>
    /\ probeRaised = FALSE
    /\ lock = 0
    /\ drained = {}
    /\ pool \in {PoolInit(n) : n \in PoolSizes}
    /\ prev = NoRun
    /\ unclosed = FALSE

mainVars ==
    <<argv, pc, mode, ips, ports, portsParsed, out, tasks, st, res, probes,
      probeRaised, lock, drained, prev, unclosed>>

\* executor.submit(...): the next task of the comprehension is queued.
PoolSubmit ==
    /\ pool.sub < pool.n
    /\ pool' = [pool EXCEPT !.sub = @ + 1]
    /\ UNCHANGED mainVars

\* A worker thread takes a queued task and runs the worker function.
PoolStart ==
    /\ pool.sub - pool.busy - pool.fin > 0
    /\ WorkerAvailable(pool.busy)
    /\ pool' = [pool EXCEPT !.busy = @ + 1]
    /\ UNCHANGED mainVars

\* A worker function returns.
PoolFinish ==
    /\ pool.busy > 0
    /\ pool' = [pool EXCEPT !.busy = @ - 1, !.fin = @ + 1]
    /\ UNCHANGED mainVars

\* The as_completed loop takes a finished future.
PoolDrain ==
    /\ pool.sub = pool.n
    /\ pool.taken < pool.fin
    /\ pool' = [pool EXCEPT !.taken = @ + 1]
    /\ UNCHANGED mainVars

\* The loop has taken every future and the scan returns.
PoolReturn ==
    /\ pool.sub = pool.n
    /\ pool.taken = pool.n
    /\ ~pool.returned
    /\ pool' = [pool EXCEPT !.returned = TRUE]
    /\ UNCHANGED mainVars

NextPool ==
    \/ PoolSubmit
    \/ PoolStart
    \/ PoolFinish
    \/ PoolDrain
    \/ PoolReturn

PoolSpec == InitPool /\ [][NextPool]_vars

\* ---------------------------------------------- resolver specification

\* The resolvers alone, on more expressions than main is run on.
ParseAddrLits == {<<"0">>, <<"1">>, <<"2">>, <<"3">>, <<"5">>, <<"x">>, <<>>}

ParseTargets ==
    ParseAddrLits
    \cup {a \o Slash \o p : a \in ParseAddrLits, p \in PrefixLits}
    \cup {<<"1", "/", "1", "/", "1">>}

ParseTokens ==
    { <<"1">>, <<"2">>, <<"3">>, <<"1", "2">>,
      <<"1", "-", "3">>, <<"2", "-", "3">>, <<"2", "-", "2">>, <<"3", "-", "1">>,
      <<"a">>, <<>>, <<"1", "-">>, <<"1", "-", "2", "-", "3">> }

RECURSIVE ParseTokenLists(_)
ParseTokenLists(n) ==
    IF n = 0 THEN {<<>>}
    ELSE {<<t>> \o l : t \in ParseTokens, l \in ParseTokenLists(n - 1)}

ParsePortExprs ==
    {Join(l) : l \in UNION {ParseTokenLists(n) : n \in 1..ParseMaxTokens}}

InitParse ==
    /\ \/ argv \in {<<t>> : t \in ParseTargets} /\ pc = "resolve_ip"
       \/ argv \in {<<p>> : p \in ParsePortExprs} /\ pc = "resolve_ports"
    /\ mode = "none"
    /\ ips = <<>>
    /\ ports = <<>>
    /\ portsParsed = FALSE
    /\ out = <<>>
    /\ tasks = <<>>
    /\ st = <<>>
    /\ res = <<>>
    /\ probes = <<>>
    /\ probeRaised = FALSE
    /\ lock = 0
    /\ drained = {}
    /\ pool = PoolIdle
    /\ prev = NoRun
    /\ unclosed = FALSE

\* parse_ip_range(ip_str): the list it returns and the error it prints.
ResolveAddresses ==
    /\ pc = "resolve_ip"
    /\ LET r == parse_ip_range(argv[1])
       IN  /\ ips' = r.ips
           /\ out' = IF r.printed
                     THEN Append(out, Message("error_ip_format", argv[1]))
                     ELSE out
    /\ pc' = "ip_resolved"
    /\ UNCHANGED <<argv, mode, ports, portsParsed, scanVars, pool, prev, unclosed>>

\* parse_ports(port_str): the list it returns, or the ValueError it raises.
ResolvePorts ==
    /\ pc = "resolve_ports"
    /\ portsParsed' = TRUE
    /\ LET r == parse_ports(argv[1])
       IN  IF r.err
           THEN pc' = "ports_error" /\ UNCHANGED ports
           ELSE pc' = "ports_resolved" /\ ports' = r.val
    /\ UNCHANGED <<argv, mode, ips, out, scanVars, pool, prev, unclosed>>

NextParse ==
    \/ ResolveAddresses
    \/ ResolvePorts

ParseSpec == InitParse /\ [][NextParse]_vars

\* ------------------------------------------------------------ properties

\* How many positions of seq hold v.
Count(seq, v) == Cardinality({i \in 1..Len(seq) : seq[i] = v})

\* The values held by seq.
Elems(seq) == {seq[i] : i \in 1..Len(seq)}

\* The positions of out holding a result line, and those printed for task t.
ResultLines == {i \in 1..Len(out) : out[i].kind \in {"icmp", "tcp"}}

LinesOf(t) == {i \in ResultLines : out[i].src = t}

ErrorKinds ==
    {"error_ip_format", "error_ip_unresolved", "error_port_format",
     "error_port_unresolved", "error_argc"}

\* Task t's probe has returned reachable / unreachable.
Reachable(t) == res[t] # <<>> /\ res[t][1].alive

Unreachable(t) == res[t] # <<>> /\ ~res[t][1].alive

\* A scan was started and has returned.
ScanReturned == pc = "done" /\ mode # "none"

\* The number of tasks the claims expect of the scan.
ExpectedTasks ==
    IF Len(argv) = 1 THEN Len(ips) ELSE Len(ips) * Len(ports)

\* C1: with no port expression the scan submits one ping task per resolved
\* address and no connect task; with a port expression it submits one
\* connect task per (address, port) pair of the cartesian product, so
\* |addresses| x |ports| tasks, and no ping task.
C1_TaskSet ==
    /\ \A k \in 1..Len(tasks) :
          tasks[k].kind = (IF Len(argv) = 1 THEN "icmp" ELSE "tcp")
    /\ ScanReturned =>
          /\ ips = parse_ip_range(argv[1]).ips
          /\ IF Len(argv) = 1
             THEN /\ Len(tasks) = Len(ips)
                  /\ \A a \in Elems(ips) :
                        Cardinality({k \in 1..Len(tasks) : tasks[k].ip = a})
                            = Count(ips, a)
             ELSE /\ ports = parse_ports(argv[2]).val
                  /\ Len(tasks) = Len(ips) * Len(ports)
                  /\ \A a \in Elems(ips), p \in Elems(ports) :
                        Cardinality({k \in 1..Len(tasks) :
                                        tasks[k].ip = a /\ tasks[k].port = <<p>>})
                            = Count(ips, a) * Count(ports, p)

\* A connect scan of two addresses and two ports has returned.
C1_Witness ==
    /\ ScanReturned
    /\ mode = "tcp"
    /\ Len(ips) = 2
    /\ Len(ports) = 2
    /\ Len(tasks) = 4

\* C2: at every moment the result lines are exactly those of the tasks whose
\* probe returned reachable: a line belongs to a reachable task and shows
\* its address, port and response time, no task has two lines, and a
\* reachable task whose worker has returned has its line.
C2_OutputMatchesReachable ==
    /\ \A i \in ResultLines :
          /\ out[i].src \in 1..Len(tasks)
          /\ Reachable(out[i].src)
          /\ out[i].kind = tasks[out[i].src].kind
          /\ out[i].ip = <<tasks[out[i].src].ip>>
          /\ out[i].port = tasks[out[i].src].port
          /\ out[i].rt = res[out[i].src][1].rt
    /\ \A t \in 1..Len(tasks) :
          /\ Cardinality(LinesOf(t)) <= 1
          /\ (Reachable(t) /\ st[t] = "finished") => Cardinality(LinesOf(t)) = 1

\* A scan has returned with one task reported and another one silent.
C2_Witness ==
    /\ ScanReturned
    /\ \E t, u \in 1..Len(tasks) :
          Reachable(t) /\ LinesOf(t) # {} /\ Unreachable(u) /\ LinesOf(u) = {}

\* Every task of the scan has been submitted, probed, has ended and has been
\* taken by the as_completed loop.
AllTasksDrained ==
    /\ Len(tasks) = ExpectedTasks
    /\ \A t \in 1..Len(tasks) :
          probes[t] >= 1 /\ FutureDone(st[t]) /\ t \in drained

\* C3: a scan returns only after every submitted task has finished and been
\* drained, whether or not a reachable target was found on the way; and,
\* every probe call returning, a scan that has started returns.
C3_ScanReturnsAfterAll ==
    /\ [](ScanReturned => AllTasksDrained)
    /\ (pc = "scan") ~> (pc = "done")

\* A scan of three tasks or more has returned, one of its tasks reachable.
C3_Witness ==
    /\ ScanReturned
    /\ Len(tasks) >= 3
    /\ \E t, u \in 1..Len(tasks) : Reachable(t) /\ Unreachable(u)

\* C4: at every moment at most max_workers (100, within 50..100) worker
\* functions, hence probes, are running, however many tasks are submitted.
C4_PoolBounded ==
    /\ max_workers \in 50..100
    /\ pool.busy <= max_workers
    /\ Cardinality(Busy) <= max_workers

\* The pool is full while submitted tasks wait in the queue.
C4_Witness ==
    /\ pool.busy = max_workers
    /\ pool.sub - pool.busy - pool.fin > 0
    /\ pool.n > max_workers

\* C5: at most one worker is inside the section that prints a result line,
\* and the one inside holds print_lock.
C5_SingleWriter ==
    /\ Cardinality({t \in 1..Len(tasks) : st[t] = "printing"}) <= 1
    /\ \A t \in 1..Len(tasks) : st[t] = "printing" => lock = t

\* One worker prints while another waits for the lock.
C5_Witness ==
    \E t, u \in 1..Len(tasks) : st[t] = "printing" /\ st[u] = "waitlock"

\* C6: the probe is invoked exactly once per submitted task: never twice,
\* once as soon as a worker has taken the task, and once for every task when
\* the scan returns; an unreachable task is not probed again.
C6_ProbedOnce ==
    /\ \A t \in 1..Len(tasks) :
          /\ probes[t] <= 1
          /\ st[t] # "queued" => probes[t] = 1
    /\ ScanReturned =>
          /\ Len(tasks) = ExpectedTasks
          /\ \A t \in 1..Len(tasks) : probes[t] = 1

\* A scan of two tasks or more has returned, one of them unreachable.
C6_Witness ==
    /\ ScanReturned
    /\ Len(tasks) >= 2
    /\ \E t \in 1..Len(tasks) : Unreachable(t) /\ probes[t] = 1

\* C7: a task whose probe returns false or raises does not abort the scan:
\* when the scan returns every task has been probed and has a result, every
\* worker function has returned normally, every reachable task is reported,
\* and no error line has been printed.
C7_FailureIsLocal ==
    ScanReturned =>
        /\ Len(tasks) = ExpectedTasks
        /\ \A t \in 1..Len(tasks) :
              /\ probes[t] = 1
              /\ st[t] = "finished"
              /\ res[t] # <<>>
              /\ Reachable(t) => LinesOf(t) # {}
        /\ \A i \in 1..Len(out) : out[i].kind \notin ErrorKinds

\* A scan has returned in which a probe raised, a task was unreachable and
\* another task was reported.
C7_Witness ==
    /\ ScanReturned
    /\ probeRaised
    /\ \E t, u \in 1..Len(tasks) :
          Unreachable(t) /\ Reachable(u) /\ LinesOf(u) # {}

\* The target expression is neither a valid address nor a valid block.
InvalidTarget(s) == ip_network(s).err /\ ip_address(s).err

\* C8: for a target that is neither a valid address nor a valid block,
\* main prints the invalid-address error and ends: no task is built, no
\* probe is invoked and the port expression is not parsed.
C8_InvalidTargetStops ==
    (pc # "start" /\ Len(argv) >= 1 /\ InvalidTarget(argv[1])) =>
        /\ pc = "done"
        /\ mode = "none"
        /\ tasks = <<>>
        /\ ~portsParsed
        /\ \E i \in 1..Len(out) :
              out[i].kind = "error_ip_format" /\ out[i].arg = argv[1]

\* main has ended on an invalid target given with a valid port expression.
C8_Witness ==
    /\ pc = "done"
    /\ Len(argv) = 2
    /\ InvalidTarget(argv[1])
    /\ ~parse_ports(argv[2]).err
    /\ parse_ports(argv[2]).val # <<>>

\* A token of the grammar: <int> or <int>-<int>.
WellFormedToken(tok) ==
    \/ IsInt(tok)
    \/ \E i \in 1..Len(tok) :
          /\ tok[i] = "-"
          /\ IsInt(SubSeq(tok, 1, i - 1))
          /\ IsInt(SubSeq(tok, i + 1, Len(tok)))

\* main was given a valid target and a port expression, and has ended.
PortsResolved == pc = "done" /\ Len(argv) = 2 /\ ips # <<>>

\* C9: a port expression with a token that is neither <int> nor <int>-<int>
\* ends main with the port-format error, whatever its other tokens, and no
\* connect task is submitted.
C9_MalformedTokenRejected ==
    (PortsResolved
        /\ \E tok \in Elems(Split(argv[2], ",")) : ~WellFormedToken(tok)) =>
        /\ mode = "none"
        /\ tasks = <<>>
        /\ out[Len(out)].kind = "error_port_format"
        /\ out[Len(out)].arg = argv[2]

\* main has ended on a port expression with a malformed and a valid token.
C9_Witness ==
    /\ PortsResolved
    /\ \E tok \in Elems(Split(argv[2], ",")) : ~WellFormedToken(tok)
    /\ \E tok \in Elems(Split(argv[2], ",")) : IsInt(tok)

\* A range token A-B with A > B.
InvertedRange(tok) ==
    \E i \in 1..Len(tok) :
        /\ tok[i] = "-"
        /\ IsInt(SubSeq(tok, 1, i - 1))
        /\ IsInt(SubSeq(tok, i + 1, Len(tok)))
        /\ IntOf(SubSeq(tok, 1, i - 1)) > IntOf(SubSeq(tok, i + 1, Len(tok)))

\* C10: a port expression with a range token A-B, A > B, ends main with a
\* port error and no task is submitted, also when the expression holds
\* valid tokens besides.
C10_InvertedRangeRejected ==
    (PortsResolved
        /\ \E tok \in Elems(Split(argv[2], ",")) : InvertedRange(tok)) =>
        /\ mode = "none"
        /\ tasks = <<>>
        /\ out[Len(out)].kind \in {"error_port_format", "error_port_unresolved"}

\* The tokens of the port expression main was given.
PortTokens == Split(argv[2], ",")

\* The position of the hyphen of a range token.
HyphenAt(tok) == CHOOSE i \in 1..Len(tok) : tok[i] = "-"

\* The first and the last port a well-formed token stands for.
TokLo(tok) ==
    IF IsInt(tok) THEN IntOf(tok) ELSE IntOf(SubSeq(tok, 1, HyphenAt(tok) - 1))

TokHi(tok) ==
    IF IsInt(tok) THEN IntOf(tok)
    ELSE IntOf(SubSeq(tok, HyphenAt(tok) + 1, Len(tok)))

\* How many tokens of toks stand for port p.
Occurrences(toks, p) ==
    Cardinality({k \in 1..Len(toks) :
                    /\ WellFormedToken(toks[k])
                    /\ TokLo(toks[k]) <= p
                    /\ p <= TokHi(toks[k])})

\* C13: ports are not deduplicated: a port stands in the resolved list once
\* per token that holds it, and the connect scan submits, and probes once,
\* one task per occurrence and address.
C13_NoDeduplication ==
    (ScanReturned /\ mode = "tcp") =>
        \A p \in Elems(ports) :
            /\ Count(ports, p) = Occurrences(PortTokens, p)
            /\ \A a \in Elems(ips) :
                  LET same == {k \in 1..Len(tasks) :
                                  tasks[k].ip = a /\ tasks[k].port = <<p>>}
                  IN  /\ Cardinality(same) = Count(ips, a) * Occurrences(PortTokens, p)
                      /\ \A k \in same : probes[k] = 1

\* A connect scan has returned that reported the same address and port twice.
C13_Witness ==
    /\ ScanReturned
    /\ \E t, u \in 1..Len(tasks) :
          /\ t # u
          /\ tasks[t] = tasks[u]
          /\ LinesOf(t) # {}
          /\ LinesOf(u) # {}

\* An address literal with no prefix length.
SingleAddress(s) == IsInt(s) /\ IntOf(s) < Pow2(AddrBits)

\* C15: a valid single address resolves to the list of that one address,
\* and a reachability scan of it submits one task and probes it once.
C15_SingleAddress ==
    (pc # "start" /\ Len(argv) >= 1 /\ SingleAddress(argv[1])) =>
        /\ ips = <<IntOf(argv[1])>>
        /\ (ScanReturned /\ Len(argv) = 1) =>
              /\ Len(tasks) = 1
              /\ tasks[1] = [kind |-> "icmp", ip |-> IntOf(argv[1]), port |-> <<>>]
              /\ probes[1] = 1

\* A reachability scan of a single address has returned.
C15_Witness ==
    /\ ScanReturned
    /\ Len(argv) = 1
    /\ SingleAddress(argv[1])
    /\ Len(tasks) = 1

\* The positions of out holding an error message.
ErrorLines == {i \in 1..Len(out) : out[i].kind \in ErrorKinds}

\* C19: when main ends on a target or port expression it could not
\* resolve, exactly one error message has been printed.
C19_ParseErrorReportedOnce ==
    (pc = "done" /\ mode = "none" /\ Len(argv) \in {1, 2}) =>
        Cardinality(ErrorLines) = 1

\* C20: a probe returns (False, 0) when it fails and (True, latency) with
\* latency >= 0 when it succeeds; the latency of a failure is the number 0.
C20_FailureLatencyZero ==
    \A t \in 1..Len(tasks) :
        res[t] # <<>> =>
            IF res[t][1].alive
            THEN res[t][1].rt # None /\ res[t][1].rt[1] >= 0
            ELSE res[t][1].rt = <<0>>

\* The tokens of the expression parse_ports was given alone.
ExprTokens == Split(argv[1], ",")

\* Every token is <int> or <int>-<int> with the bounds in order.
ValidPortExpr(toks) ==
    \A k \in 1..Len(toks) :
        WellFormedToken(toks[k]) /\ TokLo(toks[k]) <= TokHi(toks[k])

\* How many ports the first k tokens stand for.
RECURSIVE PortsBefore(_, _)
PortsBefore(toks, k) ==
    IF k = 0 THEN 0
    ELSE PortsBefore(toks, k - 1) + (TokHi(toks[k]) - TokLo(toks[k]) + 1)

\* C12: for a valid port expression parse_ports returns, token after token,
\* the value N of a token N and the B-A+1 values A, A+1, ..., B of a token
\* A-B.
C12_TokenOrderExpansion ==
    (pc \in {"ports_resolved", "ports_error"} /\ ValidPortExpr(ExprTokens)) =>
        /\ pc = "ports_resolved"
        /\ Len(ports) = PortsBefore(ExprTokens, Len(ExprTokens))
        /\ \A k \in 1..Len(ExprTokens) :
              \A j \in 0..(TokHi(ExprTokens[k]) - TokLo(ExprTokens[k])) :
                  ports[PortsBefore(ExprTokens, k - 1) + j + 1]
                      = TokLo(ExprTokens[k]) + j

\* Two integers and a range of three values have been resolved.
C12_Witness ==
    /\ pc = "ports_resolved"
    /\ Len(ExprTokens) = 3
    /\ IsInt(ExprTokens[1])
    /\ IsInt(ExprTokens[2])
    /\ ~IsInt(ExprTokens[3])
    /\ TokHi(ExprTokens[3]) - TokLo(ExprTokens[3]) = 2
    /\ Len(ports) = 5

\* The target is a block <address>/<prefix> with both parts valid.
BlockParts == Split(argv[1], "/")

ValidBlock(parts) ==
    /\ Len(parts) = 2
    /\ SingleAddress(parts[1])
    /\ IsInt(parts[2])
    /\ IntOf(parts[2]) <= AddrBits

\* The number of addresses of a block and its first address.
BlockSize(parts) == Pow2(AddrBits - IntOf(parts[2]))

BlockBase(parts) == IntOf(parts[1]) - (IntOf(parts[1]) % BlockSize(parts))

\* The addresses the claims expect of a block.
BlockHosts(parts) ==
    LET all == BlockBase(parts)..(BlockBase(parts) + BlockSize(parts) - 1)
    IN  IF BlockSize(parts) > 2
        THEN all \ {BlockBase(parts), BlockBase(parts) + BlockSize(parts) - 1}
        ELSE all

\* C14: a block resolves, in ascending order, to its addresses without the
\* network and broadcast addresses when it holds more than two addresses,
\* and to all its addresses when it holds one or two.
C14_BlockHosts ==
    (pc = "ip_resolved" /\ ValidBlock(BlockParts)) =>
        /\ Elems(ips) = BlockHosts(BlockParts)
        /\ \A i \in 1..(Len(ips) - 1) : ips[i] < ips[i + 1]
        /\ out = <<>>

\* A block of more than two addresses has been resolved.
C14_Witness ==
    /\ pc = "ip_resolved"
    /\ ValidBlock(BlockParts)
    /\ BlockSize(BlockParts) > 2
    /\ Len(ips) = BlockSize(BlockParts) - 2

\* The address of a valid block has host bits set.
HostBitsSet(parts) == IntOf(parts[1]) # BlockBase(parts)

\* The expressions of the aligned block of the same network.
AlignedForms(parts) ==
    {t \in ParseTargets :
        /\ ValidBlock(Split(t, "/"))
        /\ IntOf(Split(t, "/")[2]) = IntOf(parts[2])
        /\ IntOf(Split(t, "/")[1]) = BlockBase(parts)}

\* C17: a block whose address has host bits set is accepted and resolves
\* to the list the aligned block resolves to, more than its own address.
C17_HostBitsAccepted ==
    (pc = "ip_resolved" /\ ValidBlock(BlockParts) /\ HostBitsSet(BlockParts)) =>
        /\ out = <<>>
        /\ Len(ips) >= 2
        /\ \A t \in AlignedForms(BlockParts) : ips = parse_ip_range(t).ips

\* A block given by an address with host bits set has been resolved, and
\* the expression of its aligned block is among the targets.
C17_Witness ==
    /\ pc = "ip_resolved"
    /\ ValidBlock(BlockParts)
    /\ HostBitsSet(BlockParts)
    /\ AlignedForms(BlockParts) # {}
    /\ Len(ips) >= 2

\* C11: every port of a connect task lies in 0..65535.
C11_PortsInRange ==
    \A t \in 1..Len(tasks) :
        tasks[t].kind = "tcp" => tasks[t].port[1] \in 0..65535

\* The probe of task t has been called and has not returned.
Probing(t) == t \in 1..Len(st) /\ st[t] = "probing"

\* C18: with nothing assumed of the environment every probe that was
\* called returns, and a scan that has started returns.
C18_ProbesReturnUnaided ==
    /\ \A t \in 1..MaxFairTasks : Probing(t) ~> ~Probing(t)
    /\ (pc = "scan") ~> ScanReturned

\* No probe of the results r found its target reachable.
AllFailed(r) == \A t \in 1..Len(r) : r[t] # <<>> => ~r[t][1].alive

\* The result lines among the lines o.
ResultLinesOf(o) == {i \in 1..Len(o) : o[i].kind \in {"icmp", "tcp"}}

Printed(t) == t \in 1..Len(st) /\ LinesOf(t) # {}

\* The probe of task t has returned reachable and its worker has not yet
\* printed, while the probe of task u is still running.
ReturnedBefore(t, u) ==
    /\ t \in 1..Len(st)
    /\ u \in 1..Len(st)
    /\ st[t] = "waitlock"
    /\ st[u] = "probing"

\* C21, as stated: the order of the result lines is the order in which the
\* probes returned: once the probe of t has returned reachable and that of u
\* has not, the line of u is never out without the line of t.
C21_OutputInProbeOrder ==
    \A t, u \in 1..MaxFairTasks :
        [](ReturnedBefore(t, u) => [](Printed(u) => Printed(t)))

\* C21, amended: a result line is printed while the scan is running, one
\* line in a step, by the worker that holds print_lock, and a worker whose
\* probe found its target reachable does not return without printing; the
\* order of the lines is the order in which the workers take the lock.
C21_EmittedByLockHolder ==
    [][/\ ResultLinesOf(out') # ResultLinesOf(out) =>
            /\ pc = "scan"
            /\ pc' = "scan"
            /\ lock \in 1..Len(st)
            /\ st[lock] = "printing"
            /\ Reachable(lock)
            /\ out' = Append(out, ResultLine(lock, tasks[lock], res[lock][1].rt))
       /\ \A t \in 1..Len(st) :
            (st[t] # "finished" /\ st'[t] = "finished"
                /\ res'[t] # <<>> /\ res'[t][1].alive) =>
                    /\ st[t] = "printing"
                    /\ out' # out
                    /\ out'[Len(out')].src = t
      ]_vars

\* The line of a task is out while a task submitted before it is still
\* being probed and a task submitted after it is still queued.
C21_Witness ==
    /\ pc = "scan"
    /\ \E t, u, v \in 1..Len(st) :
          /\ t < u
          /\ u < v
          /\ Printed(u)
          /\ st[t] = "probing"
          /\ st[v] = "queued"

\* C22: when a scan has returned, the coordinator holds a count of failed
\* tasks: the number of submitted tasks less the number of result lines.
C22_FailuresCounted ==
    ScanReturned => FailedCount = <<Len(tasks) - Cardinality(ResultLines)>>

\* C23: every tcp_connect that has returned closed its socket before.
C23_SocketClosed == ~unclosed

\* The kinds of the lines printed.
KindsOut == {out[i].kind : i \in 1..Len(out)}

\* C24: a scan is dispatched only for one or two arguments; for any other
\* count no task is built and the port expression is not parsed; with no
\* argument main prints the usage and does not parse a target; with three
\* or more it parses the target first and prints the address error for an
\* invalid target, the argument-count error otherwise.
C24_DispatchByArgCount ==
    /\ mode # "none" => Len(argv) \in {1, 2}
    /\ Len(argv) \notin {1, 2} =>
          /\ tasks = <<>>
          /\ probes = <<>>
          /\ ~portsParsed
    /\ (pc = "done" /\ Len(argv) = 0) =>
          /\ out = <<Message("usage", <<>>)>>
          /\ ips = <<>>
    /\ (pc = "done" /\ Len(argv) >= 3) =>
          IF InvalidTarget(argv[1])
          THEN /\ "error_ip_format" \in KindsOut
               /\ "error_argc" \notin KindsOut
          ELSE /\ ips # <<>>
               /\ out = <<Message("error_argc", <<>>), Message("usage_short", <<>>)>>

\* main has ended on four arguments, the first an invalid target.
C24_Witness ==
    /\ pc = "done"
    /\ Len(argv) = 4
    /\ InvalidTarget(argv[1])
    /\ "error_ip_format" \in KindsOut

====
